---- MODULE Spec2Model ----
(***************************************************************************)
(* Road-network batch transform of TB1/CódigoCompletoTB1.py: adjacency     *)
(* build with one-way resolution, component discovery by BFS, reduction to *)
(* the principal component, canonical edge table, and the size-bounded     *)
(* randomized BFS sample.                                                  *)
(*                                                                         *)
(* Lengths are whole metres; times are held in hundredths of a minute      *)
(* (round(minutos, 2) * 100), so 2.0 min is 200.                           *)
(***************************************************************************)
EXTENDS Integers, Sequences, FiniteSets

\* ------------------------------------------------------------------ bounds
\* nodes and raw edges of a pipeline run
MaxNodes == 3
MaxEdges == 2
\* raw edges of a sampling run: a third edge puts parallel entries and
\* self-loops into a graph of three connected nodes
MaxEdgesMuestra == 3
\* nodes of a build-only run, which draws every attribute representation
MaxNodesBuild == 2
\* largest length, in metres, handed to the converter alone
MaxMetros == 60

\* ------------------------------------------------------- program constants
\* velocidad_kmh = 30.0
velocidad_kmh == 30
\* default length of an edge whose 'length' is missing (100.0 m)
LongitudDefecto == 100
\* sample target (100 in the source) and safety cap (1000 in the source),
\* scaled down together, cap above target as in the source
Target == 2
Cap == 3

VARIABLES
    pc,                  \* position in the script
    nodos,               \* grafo_osm.nodes
    aristas_osm,         \* grafo_osm.edges(data=True), in iteration order
    i_arista,            \* index of the next raw edge of the edge loop
    nodos_info,          \* { nodo: (x, y) }
    lista_ady,           \* { nodo: [(vecino, length, tiempo), ...] }
    pendientes,          \* nodes of todos_nodos the discovery loop has not reached
    componentes,         \* list of components
    visitados_global,
    inicio,              \* start node of the running traversal
    visitados,           \* visitados of BFS_componente / visitados_local of the sampler
    colaAuxiliar,        \* the deque of the running traversal
    encolados,           \* history: times each node was appended to the deque
    desencolados,        \* history: times each node was popped from the deque
    descubiertas,        \* history: componentes as discovered, before the sort
    componente_principal,
    reconstruido,        \* history: whether the rebuild branch (else of line 163) ran
    aristas_reg,         \* rows of the edge table
    subgrafo_nodos,      \* the sample
    dist_m,              \* argument of metros_a_minutos under SpecConv
    minutos,             \* metros_a_minutos(dist_m)
    minutos_doble        \* metros_a_minutos(2 * dist_m)

vars == <<pc, nodos, aristas_osm, i_arista, nodos_info, lista_ady, pendientes,
          componentes, visitados_global, inicio, visitados, colaAuxiliar,
          encolados, desencolados, descubiertas, componente_principal,
          reconstruido, aristas_reg, subgrafo_nodos, dist_m, minutos,
          minutos_doble>>

graphVars == <<nodos, aristas_osm>>
convVars == <<dist_m, minutos, minutos_doble>>

\* ----------------------------------------------------------------- helpers
Abs(x) == IF x < 0 THEN -x ELSE x

Min(a, b) == IF a <= b THEN a ELSE b

Range(s) == {s[i] : i \in 1..Len(s)}

SeqsUpTo(S, n) == UNION {[1..k -> S] : k \in 0..n}

\* all orderings of a finite set, as sequences without repetition
RECURSIVE Ordenes(_)
Ordenes(S) ==
    IF S = {} THEN {<<>>}
    ELSE UNION {{<<x>> \o s : s \in Ordenes(S \ {x})} : x \in S}

\* all outcomes of random.shuffle on a list: the list under every permutation
\* of its positions
Mezclas(s) == {[i \in 1..Len(s) |-> s[p[i]]] : p \in Ordenes(1..Len(s))}

\* ---------------------------------------------------- Distance-Time Converter
\* variant that truncates instead of rounding
RedondeoMut(num, den) == num \div den

\* round(num / den) to the nearest integer, ties to even (Python 3 round);
\* a whole number of metres never falls on a tie, so the float evaluation of
\* the source gives the same two decimals
Redondeo(num, den) ==
    LET q == num \div den
        r == num % den
    IN  IF 2 * r < den THEN q
        ELSE IF 2 * r > den THEN q + 1
        ELSE IF q % 2 = 0 THEN q ELSE q + 1

\* metros_a_minutos: (dist_m / 1000 / velocidad_kmh) * 60 rounded to two
\* decimals, returned in hundredths of a minute
metros_a_minutos(d) == Redondeo(d * 60 * 100, 1000 * velocidad_kmh)

\* ------------------------------------------------------------ input domains
\* values of data.get('oneway', None); "None" is the absent attribute
OnewayTodos == {"True", "False", "None", "0", "'false'", "'False'", "''"}

\* Python truthiness of a one-way value
EsFalsy(o) == o \in {"False", "None", "0", "''"}

\* Python == between a one-way value and a member of the tuple of line 83:
\* False == 0, strings equal only to themselves
PyIgual(a, b) ==
    LET num == {"False", "0"}
    IN  a = b \/ (a \in num /\ b \in num)

\* 'length' attribute: <<>> when missing, <<L>> otherwise
LongitudesTodas == {<<>>, <<1000>>}

\* raw edges between the nodes N with every attribute combination
AristasDe(N, Ls, Os) == [u : N, v : N, length : Ls, oneway : Os]

\* the two kinds of street of the pipeline runs: a two-way street of 1000 m
\* and a one-way street of 2000 m
Calles == {[length |-> <<1000>>, oneway |-> "False"],
           [length |-> <<2000>>, oneway |-> "True"]}

AristasDeCalles(N) ==
    {[u |-> a, v |-> b, length |-> c.length, oneway |-> c.oneway] :
        a \in N, b \in N, c \in Calles}

\* (x, y) of a node: distinct coordinates per node
Coordenadas(n) == <<n, 0 - n>>

\* ---------------------------------------------------------------- initial
SinTraversal == [n \in nodos |-> 0]

InitResto ==
    /\ i_arista = 1
    /\ nodos_info = <<>>
    /\ lista_ady = <<>>
    /\ pendientes = {}
    /\ componentes = <<>>
    /\ visitados_global = {}
    /\ inicio = 0
    /\ visitados = {}
    /\ colaAuxiliar = <<>>
    /\ encolados = <<>>
    /\ desencolados = <<>>
    /\ descubiertas = <<>>
    /\ componente_principal = {}
    /\ reconstruido = FALSE
    /\ aristas_reg = <<>>
    /\ subgrafo_nodos = <<>>

\* the downloaded graph: nodes 1..n, and up to MaxEdges raw edges between them
Init ==
    /\ pc = "nodos"
    /\ nodos \in {1..n : n \in 0..MaxNodes}
    /\ aristas_osm \in SeqsUpTo(AristasDeCalles(nodos), MaxEdges)
    /\ InitResto
    /\ dist_m = 0 /\ minutos = 0 /\ minutos_doble = 0

\* the same with one more raw edge
InitMuestra ==
    /\ pc = "nodos"
    /\ nodos \in {1..n : n \in 0..MaxNodes}
    /\ aristas_osm \in SeqsUpTo(AristasDeCalles(nodos), MaxEdgesMuestra)
    /\ InitResto
    /\ dist_m = 0 /\ minutos = 0 /\ minutos_doble = 0

\* the same with every representation of the one-way flag and missing lengths
InitBuild ==
    /\ pc = "nodos"
    /\ nodos \in {1..n : n \in 1..MaxNodesBuild}
    /\ aristas_osm \in SeqsUpTo(AristasDe(nodos, LongitudesTodas, OnewayTodos), MaxEdges)
    /\ InitResto
    /\ dist_m = 0 /\ minutos = 0 /\ minutos_doble = 0

\* a call of metros_a_minutos alone
InitConv ==
    /\ pc = "conv"
    /\ nodos = {}
    /\ aristas_osm = <<>>
    /\ InitResto
    /\ dist_m \in 0..MaxMetros
    /\ minutos = 0 /\ minutos_doble = 0

\* ------------------------------------------------------- Adjacency Builder
\* lines 55-61: one entry per node, empty neighbour list
ExtraerNodos ==
    /\ pc = "nodos"
    /\ nodos_info' = [n \in nodos |-> Coordenadas(n)]
    /\ lista_ady' = [n \in nodos |-> <<>>]
    /\ pc' = "aristas"
    /\ UNCHANGED <<graphVars, convVars, i_arista, pendientes, componentes,
                   visitados_global, inicio, visitados, colaAuxiliar, encolados,
                   desencolados, descubiertas, componente_principal,
                   reconstruido, aristas_reg, subgrafo_nodos>>

\* line 68-71: length = data.get('length', None), 100.0 when missing
LongitudDe(e) == IF e.length = <<>> THEN LongitudDefecto ELSE e.length[1]

\* line 83: oneway in (False, 'false', 'False', 0, None)
EsDobleSentido(o) ==
    \E t \in {"False", "'false'", "'False'", "0", "None"} : PyIgual(o, t)

\* lines 74-84 on one raw edge: the forward entry, then the reverse one
AgregarArista(ady, e) ==
    LET length == LongitudDe(e)
        tiempo == metros_a_minutos(length)
        ida == [ady EXCEPT ![e.u] = Append(@, <<e.v, length, tiempo>>)]
    IN  IF EsDobleSentido(e.oneway)
        THEN [ida EXCEPT ![e.v] = Append(@, <<e.u, length, tiempo>>)]
        ELSE ida

\* one iteration of the edge loop (lines 66-84)
ExtraerArista ==
    /\ pc = "aristas"
    /\ i_arista <= Len(aristas_osm)
    /\ lista_ady' = AgregarArista(lista_ady, aristas_osm[i_arista])
    /\ i_arista' = i_arista + 1
    /\ UNCHANGED <<pc, graphVars, convVars, nodos_info, pendientes, componentes,
                   visitados_global, inicio, visitados, colaAuxiliar, encolados,
                   desencolados, descubiertas, componente_principal,
                   reconstruido, aristas_reg, subgrafo_nodos>>

\* end of the edge loop and lines 125-131: todos_nodos, componentes = [],
\* visitados_global = set()
FinAristas ==
    /\ pc = "aristas"
    /\ i_arista > Len(aristas_osm)
    /\ pendientes' = DOMAIN lista_ady
    /\ componentes' = <<>>
    /\ visitados_global' = {}
    /\ pc' = "componentes"
    /\ UNCHANGED <<graphVars, convVars, i_arista, nodos_info, lista_ady, inicio,
                   visitados, colaAuxiliar, encolados, desencolados,
                   descubiertas, componente_principal, reconstruido,
                   aristas_reg, subgrafo_nodos>>

\* -------------------------------------------------------- Component Finder
\* grafo_adj.get(nodo, [])
VecinosDe(ady, n) == IF n \in DOMAIN ady THEN ady[n] ELSE <<>>

\* variant that enqueues without marking the neighbour
VisitarVecinoMut(st, vecino) ==
    IF vecino \notin st.vis
    THEN [vis |-> st.vis,
          cola |-> Append(st.cola, vecino),
          enc |-> [st.enc EXCEPT ![vecino] = @ + 1]]
    ELSE st

\* lines 113-117 on one neighbour: enqueue and mark when not yet visited
VisitarVecino(st, vecino) ==
    IF vecino \notin st.vis
    THEN [vis |-> st.vis \cup {vecino},
          cola |-> Append(st.cola, vecino),
          enc |-> [st.enc EXCEPT ![vecino] = @ + 1]]
    ELSE st

\* variant that leaves the loop after the first neighbour
VisitarVecinosMut(st, lista, k) ==
    IF k > Len(lista) THEN st ELSE VisitarVecino(st, lista[k][1])

\* the for loop of lines 113-117 over the neighbour list, in list order
RECURSIVE VisitarVecinos(_, _, _)
VisitarVecinos(st, lista, k) ==
    IF k > Len(lista) THEN st
    ELSE VisitarVecinos(VisitarVecino(st, lista[k][1]), lista, k + 1)

\* line 134-135: the loop reaches a node already in visitados_global
SaltarNodo ==
    /\ pc = "componentes"
    /\ \E nodo \in pendientes :
        /\ nodo \in visitados_global
        /\ pendientes' = pendientes \ {nodo}
    /\ UNCHANGED <<pc, graphVars, convVars, i_arista, nodos_info, lista_ady,
                   componentes, visitados_global, inicio, visitados,
                   colaAuxiliar, encolados, desencolados, descubiertas,
                   componente_principal, reconstruido, aristas_reg,
                   subgrafo_nodos>>

\* lines 134-137 and 106-108: the loop reaches an unvisited node, in any
\* iteration order of the set todos_nodos, and BFS_componente starts
IniciarBFS ==
    /\ pc = "componentes"
    /\ \E nodo \in pendientes :
        /\ nodo \notin visitados_global
        /\ pendientes' = pendientes \ {nodo}
        /\ inicio' = nodo
        /\ visitados' = {nodo}
        /\ colaAuxiliar' = <<nodo>>
        /\ encolados' = [SinTraversal EXCEPT ![nodo] = 1]
        /\ desencolados' = SinTraversal
    /\ pc' = "bfs"
    /\ UNCHANGED <<graphVars, convVars, i_arista, nodos_info, lista_ady,
                   componentes, visitados_global, descubiertas,
                   componente_principal, reconstruido, aristas_reg,
                   subgrafo_nodos>>

\* one iteration of the while loop of lines 110-117
PasoBFS ==
    /\ pc = "bfs"
    /\ colaAuxiliar # <<>>
    /\ LET nodo == Head(colaAuxiliar)
           st == VisitarVecinos([vis |-> visitados, cola |-> Tail(colaAuxiliar),
                                 enc |-> encolados],
                                VecinosDe(lista_ady, nodo), 1)
       IN  /\ visitados' = st.vis
           /\ colaAuxiliar' = st.cola
           /\ encolados' = st.enc
           /\ desencolados' = [desencolados EXCEPT ![nodo] = @ + 1]
    /\ UNCHANGED <<pc, graphVars, convVars, i_arista, nodos_info, lista_ady,
                   pendientes, componentes, visitados_global, inicio,
                   descubiertas, componente_principal, reconstruido,
                   aristas_reg, subgrafo_nodos>>

\* line 119 and 138-141: the queue is empty, BFS_componente returns visitados
FinBFS ==
    /\ pc = "bfs"
    /\ colaAuxiliar = <<>>
    /\ componentes' = Append(componentes, visitados)
    /\ visitados_global' = visitados_global \cup visitados
    /\ pc' = "componentes"
    /\ UNCHANGED <<graphVars, convVars, i_arista, nodos_info, lista_ady,
                   pendientes, inicio, visitados, colaAuxiliar, encolados,
                   desencolados, descubiertas, componente_principal,
                   reconstruido, aristas_reg, subgrafo_nodos>>

\* ------------------------------------------------------------ Graph Reducer
\* Python's < on the tuples (tamanio, comp): the first differing position
\* decides, ints by value and sets by proper inclusion
TuplaMenor(a, b) ==
    IF a[1] # b[1] THEN a[1] < b[1]
    ELSE IF a[2] # b[2] THEN a[2] \subseteq b[2]
    ELSE FALSE

\* variant that puts an element ahead of its equals (an unstable sort)
InsertarMut(orden, x) ==
    LET antes == {i \in 1..Len(orden) : TuplaMenor(x, orden[i])}
        k == Cardinality(antes)
    IN  SubSeq(orden, 1, k) \o <<x>> \o SubSeq(orden, k + 1, Len(orden))

\* list.sort(reverse=True) is stable: an element goes behind every element
\* already placed that is not smaller than it
Insertar(orden, x) ==
    LET menores == {i \in 1..Len(orden) : TuplaMenor(orden[i], x)}
        k == IF menores = {} THEN Len(orden) + 1
             ELSE CHOOSE i \in menores : \A j \in menores : i <= j
    IN  SubSeq(orden, 1, k - 1) \o <<x>> \o SubSeq(orden, k, Len(orden))

RECURSIVE OrdenarDesde(_, _, _)
OrdenarDesde(lista, k, orden) ==
    IF k > Len(lista) THEN orden
    ELSE OrdenarDesde(lista, k + 1, Insertar(orden, lista[k]))

\* lines 145-150: componentes_con_tamanio, sorted in descending order
OrdenarPorTamanio(comps) ==
    OrdenarDesde([i \in 1..Len(comps) |-> <<Cardinality(comps[i]), comps[i]>>], 1, <<>>)

\* lines 143-161: sort the components, the first is the principal one
OrdenarComponentes ==
    /\ pc = "componentes"
    /\ pendientes = {}
    /\ LET ordenadas == OrdenarPorTamanio(componentes)
           comps == [i \in 1..Len(ordenadas) |-> ordenadas[i][2]]
       IN  /\ componentes' = comps
           /\ componente_principal' = IF Len(comps) > 0 THEN comps[1] ELSE {}
    /\ descubiertas' = componentes
    /\ pc' = "reducir"
    /\ UNCHANGED <<graphVars, convVars, i_arista, nodos_info, lista_ady,
                   pendientes, visitados_global, inicio, visitados,
                   colaAuxiliar, encolados, desencolados, reconstruido,
                   aristas_reg, subgrafo_nodos>>

\* variant with the threshold off by one
EsConectadoMut(comps) == Len(comps) <= 2

\* line 163: len(componentes) <= 1
EsConectado(comps) == Len(comps) <= 1

\* lines 175-181: the entries of a node whose neighbour is in the component
RECURSIVE FiltrarVecinos(_, _, _)
FiltrarVecinos(lista, comp, k) ==
    IF k > Len(lista) THEN <<>>
    ELSE IF lista[k][1] \in comp
         THEN <<lista[k]>> \o FiltrarVecinos(lista, comp, k + 1)
         ELSE FiltrarVecinos(lista, comp, k + 1)

\* lines 163-191: keep the graph, or rebuild both maps on componente_principal
Reducir ==
    /\ pc = "reducir"
    /\ IF EsConectado(componentes)
       THEN UNCHANGED <<lista_ady, nodos_info, reconstruido>>
       ELSE /\ lista_ady' = [n \in componente_principal |->
                                FiltrarVecinos(lista_ady[n], componente_principal, 1)]
            /\ nodos_info' = [n \in componente_principal |-> nodos_info[n]]
            /\ reconstruido' = TRUE
    /\ pc' = "exportar"
    /\ UNCHANGED <<graphVars, convVars, i_arista, pendientes, componentes,
                   visitados_global, inicio, visitados, colaAuxiliar, encolados,
                   desencolados, descubiertas, componente_principal,
                   aristas_reg, subgrafo_nodos>>

\* ---------------------------------------------------------------- edge table
\* lines 209-212: the pair with the smaller identifier first
Par(u, v) == IF u <= v THEN <<u, v>> ELSE <<v, u>>

\* lines 203-244 on one entry of u: a row unless the pair was seen
RegistrarVecino(st, u, info) ==
    LET par == Par(u, info[1])
    IN  IF par \in st.visto THEN st
        ELSE [visto |-> st.visto \cup {par},
              reg |-> Append(st.reg, <<par[1], par[2], info[2], info[3]>>)]

RECURSIVE RegistrarVecinos(_, _, _, _)
RegistrarVecinos(st, u, lista, k) ==
    IF k > Len(lista) THEN st
    ELSE RegistrarVecinos(RegistrarVecino(st, u, lista[k]), u, lista, k + 1)

\* lines 200-244 over the keys of lista_ady in the order given
RECURSIVE RegistrarNodos(_, _, _, _)
RegistrarNodos(st, ady, orden, k) ==
    IF k > Len(orden) THEN st
    ELSE RegistrarNodos(RegistrarVecinos(st, orden[k], ady[orden[k]], 1), ady, orden, k + 1)

\* lines 197-244; a dict iterates in insertion order, which is the order of
\* grafo_osm.nodes or of the set componente_principal: every order is allowed.
\* Rows are (origen, destino, distancia_metros, tiempo_minutos).
ExportarAristas ==
    /\ pc = "exportar"
    /\ \E orden \in Ordenes(DOMAIN lista_ady) :
        aristas_reg' = RegistrarNodos([visto |-> {}, reg |-> <<>>], lista_ady, orden, 1).reg
    /\ pc' = "muestra"
    /\ UNCHANGED <<graphVars, convVars, i_arista, nodos_info, lista_ady,
                   pendientes, componentes, visitados_global, inicio, visitados,
                   colaAuxiliar, encolados, desencolados, descubiertas,
                   componente_principal, reconstruido, subgrafo_nodos>>

\* ---------------------------------------------------------- Subgraph Sampler
\* lines 292-295: at most Target nodes, the sample is every key of lista_ady
MuestraCompleta ==
    /\ pc = "muestra"
    /\ Cardinality(DOMAIN lista_ady) <= Target
    /\ subgrafo_nodos' \in Ordenes(DOMAIN lista_ady)
    /\ pc' = "fin"
    /\ UNCHANGED <<graphVars, convVars, i_arista, nodos_info, lista_ady,
                   pendientes, componentes, visitados_global, inicio, visitados,
                   colaAuxiliar, encolados, desencolados, descubiertas,
                   componente_principal, reconstruido, aristas_reg>>

\* lines 297-306: random.choice of the start node
IniciarMuestra ==
    /\ pc = "muestra"
    /\ Cardinality(DOMAIN lista_ady) > Target
    /\ \E nodo_inicio \in DOMAIN lista_ady :
        /\ inicio' = nodo_inicio
        /\ colaAuxiliar' = <<nodo_inicio>>
        /\ visitados' = {nodo_inicio}
        /\ encolados' = [SinTraversal EXCEPT ![nodo_inicio] = 1]
    /\ desencolados' = SinTraversal
    /\ subgrafo_nodos' = <<>>
    /\ pc' = "caminata"
    /\ UNCHANGED <<graphVars, convVars, i_arista, nodos_info, lista_ady,
                   pendientes, componentes, visitados_global, descubiertas,
                   componente_principal, reconstruido, aristas_reg>>

\* lines 323-326 on one neighbour; n_sub is len(subgrafo_nodos)
EncolarVecino(st, vec, n_sub) ==
    IF vec \notin st.vis /\ n_sub + Len(st.cola) < Cap
    THEN [vis |-> st.vis \cup {vec},
          cola |-> Append(st.cola, vec),
          enc |-> [st.enc EXCEPT ![vec] = @ + 1]]
    ELSE st

RECURSIVE EncolarVecinos(_, _, _, _)
EncolarVecinos(st, vecinos, n_sub, k) ==
    IF k > Len(vecinos) THEN st
    ELSE EncolarVecinos(EncolarVecino(st, vecinos[k], n_sub), vecinos, n_sub, k + 1)

\* lines 314-317: the neighbour identifiers of a node, in list order
ListaVecinos(ady, n) ==
    LET lista == VecinosDe(ady, n)
    IN  [i \in 1..Len(lista) |-> lista[i][1]]

\* one iteration of the while loop of lines 309-326, for every shuffle outcome
PasoMuestra ==
    /\ pc = "caminata"
    /\ Len(colaAuxiliar) > 0 /\ Len(subgrafo_nodos) < Target
    /\ LET nodo == Head(colaAuxiliar)
           sub == Append(subgrafo_nodos, nodo)
       IN  /\ subgrafo_nodos' = sub
           /\ desencolados' = [desencolados EXCEPT ![nodo] = @ + 1]
           /\ \E vecinos \in Mezclas(ListaVecinos(lista_ady, nodo)) :
                LET st == EncolarVecinos([vis |-> visitados, cola |-> Tail(colaAuxiliar),
                                          enc |-> encolados], vecinos, Len(sub), 1)
                IN  /\ visitados' = st.vis
                    /\ colaAuxiliar' = st.cola
                    /\ encolados' = st.enc
    /\ UNCHANGED <<pc, graphVars, convVars, i_arista, nodos_info, lista_ady,
                   pendientes, componentes, visitados_global, inicio,
                   descubiertas, componente_principal, reconstruido, aristas_reg>>

\* lines 332-334: the keys not in the sample
Extras(ady, sub) == DOMAIN ady \ Range(sub)

\* variant that adds one node too few
RellenoMut(extras, faltan) == SubSeq(extras, 1, Min(faltan - 1, Len(extras)))

\* lines 338-339: the first min(faltan, len(extras)) shuffled extras
Relleno(extras, faltan) == SubSeq(extras, 1, Min(faltan, Len(extras)))

\* lines 328-339: the walk is over; fill the sample up to Target from the
\* shuffled extras
CompletarMuestra ==
    /\ pc = "caminata"
    /\ ~(Len(colaAuxiliar) > 0 /\ Len(subgrafo_nodos) < Target)
    /\ IF Len(subgrafo_nodos) < Target
       THEN \E extras \in Ordenes(Extras(lista_ady, subgrafo_nodos)) :
                subgrafo_nodos' = subgrafo_nodos \o
                                  Relleno(extras, Target - Len(subgrafo_nodos))
       ELSE UNCHANGED subgrafo_nodos
    /\ pc' = "fin"
    /\ UNCHANGED <<graphVars, convVars, i_arista, nodos_info, lista_ady,
                   pendientes, componentes, visitados_global, inicio, visitados,
                   colaAuxiliar, encolados, desencolados, descubiertas,
                   componente_principal, reconstruido, aristas_reg>>

\* ------------------------------------------------------------- conversion
\* tiempo = metros_a_minutos(length), on dist_m and on twice dist_m
Convertir ==
    /\ pc = "conv"
    /\ minutos' = metros_a_minutos(dist_m)
    /\ minutos_doble' = metros_a_minutos(2 * dist_m)
    /\ pc' = "conv_fin"
    /\ UNCHANGED <<graphVars, dist_m, i_arista, nodos_info, lista_ady,
                   pendientes, componentes, visitados_global, inicio, visitados,
                   colaAuxiliar, encolados, desencolados, descubiertas,
                   componente_principal, reconstruido, aristas_reg,
                   subgrafo_nodos>>

\* ---------------------------------------------------------- specifications
Next ==
    \/ ExtraerNodos
    \/ ExtraerArista
    \/ FinAristas
    \/ SaltarNodo
    \/ IniciarBFS
    \/ PasoBFS
    \/ FinBFS
    \/ OrdenarComponentes
    \/ Reducir
    \/ ExportarAristas
    \/ MuestraCompleta
    \/ IniciarMuestra
    \/ PasoMuestra
    \/ CompletarMuestra

Spec == Init /\ [][Next]_vars

SpecMuestra == InitMuestra /\ [][Next]_vars

NextBuild == ExtraerNodos \/ ExtraerArista

SpecBuild == InitBuild /\ [][NextBuild]_vars

NextConv == Convertir

SpecConv == InitConv /\ [][NextConv]_vars

\* ------------------------------------------------------ reference notions
\* the adjacency the edge loop builds from the whole raw edge list
RECURSIVE AdyDesde(_, _)
AdyDesde(ady, k) ==
    IF k > Len(aristas_osm) THEN ady
    ELSE AdyDesde(AgregarArista(ady, aristas_osm[k]), k + 1)

AdyConstruida == AdyDesde([n \in nodos |-> <<>>], 1)

\* the neighbours of a node's adjacency entries
VecinosSalientes(ady, n) == {VecinosDe(ady, n)[i][1] : i \in 1..Len(VecinosDe(ady, n))}

\* least set holding S and closed under outgoing adjacency entries
RECURSIVE Cierre(_, _)
Cierre(ady, S) ==
    LET T == S \cup UNION {VecinosSalientes(ady, n) : n \in S}
    IN  IF T = S THEN S ELSE Cierre(ady, T)

Alcanzables(ady, n) == Cierre(ady, {n})

\* the same ignoring the direction of the entries
VecinosDebiles(ady, n) ==
    VecinosSalientes(ady, n) \cup {m \in DOMAIN ady : n \in VecinosSalientes(ady, m)}

RECURSIVE CierreDebil(_, _)
CierreDebil(ady, S) ==
    LET T == S \cup UNION {VecinosDebiles(ady, n) : n \in S}
    IN  IF T = S THEN S ELSE CierreDebil(ady, T)

DebilmenteConexo(ady) ==
    /\ DOMAIN ady # {}
    /\ \A n \in DOMAIN ady : CierreDebil(ady, {n}) = DOMAIN ady

SinRepetidos(s) == \A i, j \in 1..Len(s) : s[i] = s[j] => i = j

DescubrimientoTerminado == pc = "componentes" /\ pendientes = {}

TrasReducir == pc \in {"exportar", "muestra", "caminata", "fin"}

TrasOrdenar == pc = "reducir" \/ TrasReducir

ConstruccionTerminada == pc = "aristas" /\ i_arista > Len(aristas_osm)

\* ------------------------------------------------------------------- claims

\* C1: when the discovery loop ends, the discovered components are pairwise
\* disjoint and their union is the key set of the adjacency map.
C1_ParticionComponentes ==
    DescubrimientoTerminado =>
        /\ \A i, j \in 1..Len(componentes) :
              i # j => componentes[i] \cap componentes[j] = {}
        /\ UNION Range(componentes) = DOMAIN lista_ady

\* C2: whenever the loop of BFS_componente exits, the queue is empty and
\* visitados is exactly the set reachable from inicio along the adjacency
\* entries, whatever the order of the neighbour lists; the loop never runs more
\* iterations than there are nodes, and everything queued is already marked.
C2_BFSAlcanzables ==
    pc = "bfs" =>
        /\ colaAuxiliar = <<>> => visitados = Alcanzables(lista_ady, inicio)
        /\ Range(colaAuxiliar) \subseteq visitados
        /\ visitados \subseteq Alcanzables(lista_ady, inicio)
        /\ \A n \in nodos : desencolados[n] = 1 => n \in visitados
        /\ Cardinality({n \in nodos : desencolados[n] > 0}) + Len(colaAuxiliar)
              = Cardinality(visitados)

\* C2 witness: a traversal over a one-way entry has returned three nodes.
C2_Witness ==
    /\ pc = "bfs" /\ colaAuxiliar = <<>>
    /\ Cardinality(visitados) = 3
    /\ \E k \in 1..Len(aristas_osm) : aristas_osm[k].oneway = "True"

\* C3: after the reduction step, rebuilt or not, the keys of lista_ady and of
\* nodos_info are exactly componente_principal and every neighbour of every
\* adjacency entry is in componente_principal.
C3_ReducidoAlPrincipal ==
    TrasReducir =>
        /\ DOMAIN lista_ady = componente_principal
        /\ DOMAIN nodos_info = componente_principal
        /\ \A n \in DOMAIN lista_ady : VecinosSalientes(lista_ady, n) \subseteq componente_principal

\* C3 witness: the rebuild branch ran and dropped a node.
C3_Witness ==
    /\ pc = "exportar" /\ reconstruido
    /\ componente_principal # nodos
    /\ Cardinality(componente_principal) >= 2

\* C4: when the sampler ends, a graph of at least Target nodes has a sample of
\* exactly Target distinct nodes of the graph, and a graph of fewer nodes has
\* every node in its sample, once each.
C4_TamanioMuestra ==
    pc = "fin" =>
        /\ SinRepetidos(subgrafo_nodos)
        /\ Range(subgrafo_nodos) \subseteq DOMAIN lista_ady
        /\ IF Cardinality(DOMAIN lista_ady) >= Target
           THEN Len(subgrafo_nodos) = Target
           ELSE Range(subgrafo_nodos) = DOMAIN lista_ady

\* C4 witness: the walk ran dry below Target and the fill completed the sample.
C4_Witness ==
    /\ pc = "fin"
    /\ Cardinality(DOMAIN lista_ady) > Target
    /\ Len(subgrafo_nodos) = Target
    /\ \E i \in 1..Len(subgrafo_nodos) : subgrafo_nodos[i] \notin visitados

\* C5: componente_principal is a discovered component of maximum size, the
\* first discovered among those of maximum size, and the sorted list keeps
\* components of equal size in their order of discovery.
PosDescubierta(c) == CHOOSE i \in 1..Len(descubiertas) : descubiertas[i] = c

C5_PrincipalPrimeraMayor ==
    (TrasOrdenar /\ descubiertas # <<>>) =>
        /\ \E i \in 1..Len(descubiertas) :
              /\ componente_principal = descubiertas[i]
              /\ \A j \in 1..Len(descubiertas) :
                    /\ Cardinality(descubiertas[j]) <= Cardinality(descubiertas[i])
                    /\ j < i => Cardinality(descubiertas[j]) < Cardinality(descubiertas[i])
        /\ Len(componentes) = Len(descubiertas)
        /\ Range(componentes) = Range(descubiertas)
        /\ \A a, b \in 1..Len(componentes) :
              a < b =>
                 /\ Cardinality(componentes[a]) >= Cardinality(componentes[b])
                 /\ Cardinality(componentes[a]) = Cardinality(componentes[b])
                       => PosDescubierta(componentes[a]) < PosDescubierta(componentes[b])

\* C5 witness: two discovered components tie for the maximum size and the
\* one discovered first was chosen.
C5_Witness ==
    /\ pc = "reducir"
    /\ Len(descubiertas) >= 2
    /\ \E j \in 2..Len(descubiertas) :
          /\ Cardinality(descubiertas[j]) = Cardinality(descubiertas[1])
          /\ Cardinality(descubiertas[1]) >= 2
    /\ componente_principal = descubiertas[1]

\* C6: on a weakly connected input, discovery and reduction leave lista_ady
\* and nodos_info as the builder made them.
C6_ReductorIdentidad ==
    (TrasReducir /\ DebilmenteConexo(AdyConstruida)) =>
        /\ lista_ady = AdyConstruida
        /\ nodos_info = [n \in nodos |-> Coordenadas(n)]

\* C7: after the build, every raw edge has its forward entry in the origin's
\* list, and every edge whose one-way value is absent, false or falsy also has
\* the reverse entry, with the same length and time, in the destination's list.
TieneEntrada(n, vecino, length) ==
    \E i \in 1..Len(lista_ady[n]) :
        lista_ady[n][i] = <<vecino, length, metros_a_minutos(length)>>

C7_Bidireccional ==
    ConstruccionTerminada =>
        \A k \in 1..Len(aristas_osm) :
            LET e == aristas_osm[k]
            IN  /\ TieneEntrada(e.u, e.v, LongitudDe(e))
                /\ (e.oneway \in {"None", "False"} \/ EsFalsy(e.oneway))
                      => TieneEntrada(e.v, e.u, LongitudDe(e))

\* C8: on nodes A, B, C (1, 2, 3) with the raw edges (A,B,1000,two-way) and
\* (B,C,2000,one-way), the adjacency is A->[(B,1000,2.0)],
\* B->[(A,1000,2.0),(C,2000,4.0)], C->[], discovery reports the single
\* component {A,B,C}, and the edge table has exactly the rows (A,B,1000,2.0)
\* and (B,C,2000,4.0).
EsEscenario ==
    /\ nodos = {1, 2, 3}
    /\ aristas_osm = <<[u |-> 1, v |-> 2, length |-> <<1000>>, oneway |-> "False"],
                       [u |-> 2, v |-> 3, length |-> <<2000>>, oneway |-> "True"]>>

C8_Escenario ==
    (EsEscenario /\ pc \in {"muestra", "caminata", "fin"}) =>
        /\ lista_ady = [n \in {1, 2, 3} |->
                           IF n = 1 THEN <<<<2, 1000, 200>>>>
                           ELSE IF n = 2 THEN <<<<1, 1000, 200>>, <<3, 2000, 400>>>>
                           ELSE <<>>]
        /\ descubiertas = <<{1, 2, 3}>>
        /\ Len(aristas_reg) = 2
        /\ Range(aristas_reg) = {<<1, 2, 1000, 200>>, <<2, 3, 2000, 400>>}

\* C9 as stated: the time of twice a length is twice the time of the length,
\* and the time of 0 m is 0.
C9_Linealidad ==
    pc = "conv_fin" =>
        /\ minutos_doble = 2 * minutos
        /\ dist_m = 0 => minutos = 0

\* C9 amended: for a whole number of metres L, the time of 2L is twice the time
\* of L when L mod 5 is 0, 1 or 4, and differs from it by one hundredth of a
\* minute otherwise; the time of 0 m is 0.
C9_LinealidadSalvoRedondeo ==
    pc = "conv_fin" =>
        /\ IF dist_m % 5 \in {0, 1, 4}
           THEN minutos_doble = 2 * minutos
           ELSE Abs(minutos_doble - 2 * minutos) = 1
        /\ dist_m = 0 => minutos = 0

\* C9 witness: a positive length whose doubled time is exactly twice its time.
C9_Witness ==
    /\ pc = "conv_fin"
    /\ dist_m = 50
    /\ minutos = 10 /\ minutos_doble = 20

\* C10: in a traversal no node is appended to the queue twice or popped twice,
\* a node is popped only after it was appended, the queue holds exactly the
\* nodes appended and not yet popped, and the sample never holds a node twice.
C10_SinReencolar ==
    /\ \A n \in DOMAIN encolados :
          /\ encolados[n] <= 1
          /\ desencolados[n] <= encolados[n]
    /\ pc \in {"bfs", "caminata"} =>
          /\ SinRepetidos(colaAuxiliar)
          /\ Range(colaAuxiliar) = {n \in nodos : encolados[n] = 1 /\ desencolados[n] = 0}
    /\ SinRepetidos(subgrafo_nodos)

\* C10 witness: a sampling walk over parallel entries and a self-loop has
\* popped two nodes.
C10_Witness ==
    /\ pc = "caminata"
    /\ Len(subgrafo_nodos) = 2
    /\ \E n \in nodos : n \in VecinosSalientes(lista_ady, n)
    /\ \E n \in nodos : \E i, j \in 1..Len(lista_ady[n]) :
          i # j /\ lista_ady[n][i][1] = lista_ady[n][j][1]

====
